---- MODULE Spec2Model ----
(***************************************************************************)
(* openclaw-maasv: the memory plugin that bridges the agent host to the    *)
(* maasv cognition service over HTTP.                                      *)
(*                                                                         *)
(* Strings are sequences.  Text whose length matters (the recalled context,*)
(* the reasoning of a wisdom entry) is a sequence of one-character         *)
(* strings; tool responses, error messages and paths are sequences of      *)
(* string tokens, a template literal being the concatenation of its parts. *)
(* Numbers that are only printed or forwarded are their decimal strings.   *)
(***************************************************************************)
EXTENDS Integers, Sequences, FiniteSets, TLC

VARIABLES
    config,     \* the PluginConfig built by register
    wisdom,     \* service side: the wisdom entries, by id
    graph,      \* service side: the relationships, in the order they were opened
    memories,   \* service side: the memories stored, in the order they were stored
    last,       \* the most recently settled invocation and what it did
    calls,      \* client: the request() calls in flight, by slot
    done        \* client: the most recently settled request() call

vars == <<config, wisdom, graph, memories, last, calls, done>>

-----------------------------------------------------------------------------
(* JavaScript values *)

Undefined == "undefined"
Null == "null"

\* !x for the string-or-undefined parameters of the tools
Falsy(x) == x \in {Undefined, Null, ""}

Min(a, b) == IF a < b THEN a ELSE b
Max(a, b) == IF a > b THEN a ELSE b

\* String.prototype.slice(start, end): negative indices count from the end
slice(s, start, end) ==
    LET len  == Len(s)
        from == IF start < 0 THEN Max(len + start, 0) ELSE Min(start, len)
        to   == IF end < 0 THEN Max(len + end, 0) ELSE Min(end, len)
    IN  IF from >= to THEN <<>> ELSE SubSeq(s, from + 1, to)

\* Math.ceil(n / 2) for an integer n
CeilHalf(n) == (n + 1) \div 2

\* Array.prototype.join over sequences of token sequences
RECURSIVE join(_, _)
join(parts, sep) ==
    IF parts = <<>> THEN <<>>
    ELSE IF Len(parts) = 1 THEN parts[1]
    ELSE parts[1] \o sep \o join(Tail(parts), sep)

\* sub occurs in s as a contiguous run of tokens
Contains(s, sub) ==
    \E i \in 0..(Len(s) - Len(sub)) : SubSeq(s, i + 1, i + Len(sub)) = sub

-----------------------------------------------------------------------------
(* Bounds *)

MaxCtxLen == 10          \* longest context text the service returns
MaxCalls == 2            \* request() calls in flight at once
TicksPerTimeout == 2     \* steps of the clock in one timeout
MaxRelationships == 2    \* relationships the graph holds

Chars == <<"a", "b", "c", "d">>

\* a context text of n characters
Ctx(n) == [i \in 1..n |-> Chars[((i - 1) % Len(Chars)) + 1]]

-----------------------------------------------------------------------------
(* MaasvClient: the request each method issues (method, path, JSON body) *)

NoJson == [none |-> "undefined"]

\* --- Wisdom ---

logReasoning(req) ==
    [method |-> "POST", path |-> <<"/v1/wisdom/log">>, body |-> req]

recordOutcome(wisdomId, outcome, details) ==
    [method |-> "POST",
     path   |-> <<"/v1/wisdom/", wisdomId, "/outcome">>,
     body   |-> [outcome |-> outcome, details |-> details]]

addFeedback(wisdomId, score, notes) ==
    [method |-> "POST",
     path   |-> <<"/v1/wisdom/", wisdomId, "/feedback">>,
     body   |-> [score |-> score, notes |-> notes]]

DefaultWisdomLimit == 10

\* an optional number is the empty set (undefined) or the set of its value
Given(opt, default) == IF opt = {} THEN default ELSE CHOOSE n \in opt : TRUE

searchWisdom(query, limit) ==
    [method |-> "POST",
     path   |-> <<"/v1/wisdom/search">>,
     body   |-> [query |-> query, limit |-> Given(limit, DefaultWisdomLimit)]]

\* --- Memory ---

storeMemory(req) ==
    [method |-> "POST", path |-> <<"/v1/memory/store">>, body |-> req]

searchMemories(req) ==
    [method |-> "POST", path |-> <<"/v1/memory/search">>, body |-> req]

getContext(req) ==
    [method |-> "POST", path |-> <<"/v1/memory/context">>, body |-> req]

deleteMemory(memoryId) ==
    [method |-> "DELETE", path |-> <<"/v1/memory/", memoryId>>, body |-> NoJson]

extract(text, topic) ==
    [method |-> "POST", path |-> <<"/v1/extract">>,
     body |-> [text |-> text, topic |-> IF topic = Undefined THEN "" ELSE topic]]

\* --- Graph ---

DefaultEntityLimit == 10

searchEntities(query, entityType, limit) ==
    [method |-> "POST", path |-> <<"/v1/graph/entities/search">>,
     body |-> [query |-> query, entity_type |-> entityType,
               limit |-> Given(limit, DefaultEntityLimit)]]

getEntityProfile(entityId) ==
    [method |-> "GET", path |-> <<"/v1/graph/entities/", entityId>>, body |-> NoJson]

addRelationship(req) ==
    [method |-> "POST", path |-> <<"/v1/graph/relationships">>, body |-> req]

\* --- Health ---

health == [method |-> "GET", path |-> <<"/v1/health">>, body |-> NoJson]

stats == [method |-> "GET", path |-> <<"/v1/stats">>, body |-> NoJson]

-----------------------------------------------------------------------------
(* What fetch can do with one request *)

\* served:     the service handles the request and its response arrives
\* connerr:    fetch rejects, the service is not reached
\* timeout:    no response within the timeout, the controller aborts fetch
\* httperr:    a non-2xx response that does not come from the handler
\* unreadable: a non-2xx response whose body cannot be read
\* badjson:    a 2xx response whose body is not JSON
FetchOutcomes ==
    {[kind |-> k, status |-> 0] : k \in {"served", "connerr", "timeout"}}
    \cup {[kind |-> "httperr", status |-> 500], [kind |-> "unreadable", status |-> 300],
          [kind |-> "badjson", status |-> 299]}

FetchFailed == <<"fetch failed">>
AbortMessage == <<"This operation was aborted">>
JsonMessage == <<"Unexpected token in JSON">>

\* the response fetch settles with; svc is the service's answer when served
Fetch(net, svc) ==
    CASE net.kind = "served" ->
            [settled |-> "resolved", error |-> <<>>, status |-> svc.status,
             textOk |-> TRUE, text |-> svc.text, jsonOk |-> TRUE, json |-> svc.json]
      [] net.kind = "connerr" ->
            [settled |-> "rejected", error |-> FetchFailed, status |-> 0,
             textOk |-> FALSE, text |-> <<>>, jsonOk |-> FALSE, json |-> NoJson]
      [] net.kind = "timeout" ->
            [settled |-> "rejected", error |-> AbortMessage, status |-> 0,
             textOk |-> FALSE, text |-> <<>>, jsonOk |-> FALSE, json |-> NoJson]
      [] net.kind = "httperr" ->
            [settled |-> "resolved", error |-> <<>>, status |-> net.status,
             textOk |-> TRUE, text |-> <<"Server Error">>,
             jsonOk |-> FALSE, json |-> NoJson]
      [] net.kind = "unreadable" ->
            [settled |-> "resolved", error |-> <<>>, status |-> net.status,
             textOk |-> FALSE, text |-> <<>>, jsonOk |-> FALSE, json |-> NoJson]
      [] net.kind = "badjson" ->
            [settled |-> "resolved", error |-> <<>>, status |-> net.status,
             textOk |-> TRUE, text |-> <<"<html>">>, jsonOk |-> FALSE, json |-> NoJson]

\* ResponseOk taking every status below 400 for a success
ResponseOkBelow400(status) == status >= 200 /\ status <= 399

\* Response.ok
ResponseOk(status) == status >= 200 /\ status <= 299

\* the message of the Error thrown for a non-2xx response
FailureMessage(method, path, status, text) ==
    <<"maasv-server ", method, " ">> \o path \o <<" failed: ", ToString(status), " ">> \o text

\* MaasvClient.request: what the call settles with, given fetch's response
request(req, resp) ==
    IF resp.settled = "rejected"
    THEN [ok |-> FALSE, value |-> NoJson, message |-> resp.error]
    ELSE IF ~ResponseOk(resp.status)
    THEN [ok |-> FALSE, value |-> NoJson,
          message |-> FailureMessage(req.method, req.path, resp.status,
                                     IF resp.textOk THEN resp.text ELSE <<>>)]
    ELSE IF resp.jsonOk
    THEN [ok |-> TRUE, value |-> resp.json, message |-> <<>>]
    ELSE [ok |-> FALSE, value |-> NoJson, message |-> JsonMessage]

-----------------------------------------------------------------------------
(* The service's wisdom endpoints, from the specification's contract *)

WisdomIds == <<"w1", "w2">>

NoEntry ==
    [logged |-> FALSE, action_type |-> Undefined, reasoning |-> <<>>,
     outcome |-> Null, feedback_score |-> Null]

Logged(w) == {id \in DOMAIN w : w[id].logged}

\* the id the next logged entry gets
NextWisdomId(w) ==
    WisdomIds[CHOOSE i \in 1..Len(WisdomIds) :
                /\ ~w[WisdomIds[i]].logged
                /\ \A j \in 1..(i - 1) : w[WisdomIds[j]].logged]

NotFound(w) ==
    [status |-> 404, text |-> <<"{\"detail\":\"Not found\"}">>, json |-> NoJson,
     wisdom |-> w]

\* POST /v1/wisdom/log
ServeWisdomLog(w, req) ==
    LET id == NextWisdomId(w)
    IN  [status |-> 200, text |-> <<>>, json |-> [wisdom_id |-> id],
         wisdom |-> [w EXCEPT ![id] =
                        [logged |-> TRUE, action_type |-> req.body.action_type,
                         reasoning |-> req.body.reasoning,
                         outcome |-> Null, feedback_score |-> Null]]]

\* POST /v1/wisdom/{id}/outcome: an entry is mutated once by outcome recording
ServeWisdomOutcome(w, req) ==
    LET id == req.path[2]
    IN  IF id \notin Logged(w) THEN NotFound(w)
        ELSE IF w[id].outcome # Null
        THEN [status |-> 200, text |-> <<>>, json |-> [updated |-> FALSE], wisdom |-> w]
        ELSE [status |-> 200, text |-> <<>>, json |-> [updated |-> TRUE],
              wisdom |-> [w EXCEPT ![id].outcome = req.body.outcome]]

\* POST /v1/wisdom/{id}/feedback: independent of the outcome
ServeWisdomFeedback(w, req) ==
    LET id == req.path[2]
    IN  IF id \notin Logged(w) THEN NotFound(w)
        ELSE IF w[id].feedback_score # Null
        THEN [status |-> 200, text |-> <<>>, json |-> [updated |-> FALSE], wisdom |-> w]
        ELSE [status |-> 200, text |-> <<>>, json |-> [updated |-> TRUE],
              wisdom |-> [w EXCEPT ![id].feedback_score = req.body.score]]

\* the entry as the search endpoint returns it
WisdomEntry(w, id) ==
    [id |-> id, action_type |-> w[id].action_type, reasoning |-> w[id].reasoning,
     outcome |-> w[id].outcome, feedback_score |-> w[id].feedback_score]

\* POST /v1/wisdom/search: hits is the ranked list of matching ids
ServeWisdomSearch(w, req, hits) ==
    LET kept == SubSeq(hits, 1, Min(Len(hits), req.body.limit))
    IN  [status |-> 200, text |-> <<>>,
         json |-> [results |-> [i \in 1..Len(kept) |-> WisdomEntry(w, kept[i])],
                   count |-> Len(kept)],
         wisdom |-> w]

\* the rankings a search can come back with: logged ids, none twice
Rankings(w) ==
    {<<>>} \cup {<<a>> : a \in Logged(w)}
           \cup {r \in Logged(w) \X Logged(w) : r[1] # r[2]}

ServeWisdom(w, req, hits) ==
    CASE req.path = <<"/v1/wisdom/log">>    -> ServeWisdomLog(w, req)
      [] req.path = <<"/v1/wisdom/search">> -> ServeWisdomSearch(w, req, hits)
      [] Len(req.path) = 3 /\ req.path[3] = "/outcome"  -> ServeWisdomOutcome(w, req)
      [] Len(req.path) = 3 /\ req.path[3] = "/feedback" -> ServeWisdomFeedback(w, req)

-----------------------------------------------------------------------------
(* The service's memory and graph endpoints, from the specification's      *)
(* contract.  Mem1 and Mem2 are memories the service holds from before; a  *)
(* search answers with a ranking of them cut to the limit.                 *)

Mem1 ==
    [id |-> "m1", content |-> "likes coffee", category |-> "preference",
     subject |-> Null, confidence |-> "1", imp_score |-> {812}]
Mem2 ==
    [id |-> "m2", content |-> "likes tea", category |-> "preference",
     subject |-> "Ana", confidence |-> "0.5", imp_score |-> {}]

MemoryIds == {"m1", "m2"}

\* the rankings a memory search can come back with, the longest of them with
\* more memories than the default limit of a search
MemoryRankings ==
    {<<>>, <<Mem1>>, <<Mem2, Mem1>>,
     <<Mem2, Mem1>> \o [i \in 1..4 |->
         [Mem1 EXCEPT !.id = <<"m11", "m12", "m13", "m14">>[i],
                      !.content = <<"note 1", "note 2", "note 3", "note 4">>[i]]]}

\* POST /v1/memory/search: the ranking, cut to the requested limit
ServeMemorySearch(req, hits) ==
    LET limit == Given(req.body.limit, Len(hits))
        kept  == SubSeq(hits, 1, Max(0, Min(Len(hits), limit)))
    IN  [status |-> 200, text |-> <<>>, json |-> [results |-> kept, count |-> Len(kept)]]

\* POST /v1/memory/store: content within the near-duplicate threshold of a
\* stored memory (here: the same content) answers the existing id and
\* creates no record; other content is inserted
ServeMemoryStore(mem, req) ==
    LET StoredIds == <<"m3", "m4", "m5">>
        dup == {i \in 1..Len(mem) : mem[i].content = req.body.content}
        new == [id |-> StoredIds[Len(mem) + 1], content |-> req.body.content,
                confidence |-> req.body.confidence]
    IN  IF dup # {}
        THEN [status |-> 200, text |-> <<>>,
              json |-> [memory_id |-> mem[CHOOSE i \in dup : TRUE].id], memories |-> mem]
        ELSE [status |-> 200, text |-> <<>>, json |-> [memory_id |-> new.id],
              memories |-> Append(mem, new)]

\* DELETE /v1/memory/{id}
ServeMemoryDelete(req) ==
    IF req.path[2] \in MemoryIds
    THEN [status |-> 200, text |-> <<>>,
          json |-> [deleted |-> TRUE, memory_id |-> req.path[2]]]
    ELSE [status |-> 404, text |-> <<"{\"detail\":\"Not found\"}">>, json |-> NoJson]

\* POST /v1/memory/context: the tiered context text, n characters long
ServeContext(req, n) ==
    [status |-> 200, text |-> <<>>, json |-> [context |-> Ctx(n)]]

\* POST /v1/extract
ServeExtract(req) ==
    [status |-> 200, text |-> <<>>, json |-> [extraction |-> [status |-> "ok"]]]

\* GET /v1/health, GET /v1/stats
ServeHealth == [status |-> 200, text |-> <<>>, json |-> [status |-> "healthy"]]
ServeStats == [status |-> 200, text |-> <<>>, json |-> [memories |-> "{...}"]]

Ent1 == [id |-> "e1", name |-> "Alice", entity_type |-> "person"]

EntityRankings == {<<>>, <<Ent1>>}

\* the relationships of a profile under the predicates no request of the
\* model touches, grouped by predicate in the order sent
ProfileRelationships ==
    {<<>>,
     <<[pred |-> "knows",
        rels |-> <<[object_name |-> "Bob", object_value |-> Null,
                    object_id |-> "e2"],
                   [object_name |-> Undefined, object_value |-> Null,
                    object_id |-> "e3"]>>]>>}

\* POST /v1/graph/entities/search
ServeEntitySearch(req, hits) ==
    LET kept == SubSeq(hits, 1, Min(Len(hits), req.body.limit))
    IN  [status |-> 200, text |-> <<>>, json |-> [results |-> kept, count |-> Len(kept)]]

\* the relationships of g that are valid now (valid_to = null)
ValidNow(g) == {i \in 1..Len(g) : g[i].valid_to = Null}

\* GET /v1/graph/entities/{id}: the entity and, for every predicate, its
\* relationships that are valid now
ServeProfile(req, rels, g) ==
    LET Predicates == <<"works_on">>
        group(pred) ==
            [pred |-> pred,
             rels |-> SelectSeq(g, LAMBDA r : /\ r.subject_id = req.path[2]
                                              /\ r.predicate = pred
                                              /\ r.valid_to = Null)]
        groups == [i \in 1..Len(Predicates) |-> group(Predicates[i])]
    IN  IF req.path[2] = Ent1.id
        THEN [status |-> 200, text |-> <<>>,
              json |-> [entity |-> Ent1,
                        relationships |->
                            SelectSeq(groups, LAMBDA gr : gr.rels # <<>>) \o rels]]
        ELSE [status |-> 404, text |-> <<"{\"detail\":\"Not found\"}">>, json |-> NoJson]

\* POST /v1/graph/relationships: a relationship has exactly one of object_id
\* and object_value; the same object as the valid relationship of the
\* subject and predicate is a no-op answering the existing id; a different
\* object closes the valid one and opens a new one
ServeRelationship(g, req) ==
    LET RelationshipIds == <<"r1", "r2", "r3", "r4">>
        \* a field the JSON body leaves out is stored as null
        Nullable(v) == IF v = Undefined THEN Null ELSE v
        b    == req.body
        cur  == {i \in ValidNow(g) : /\ g[i].subject_id = b.subject_id
                                     /\ g[i].predicate = b.predicate}
        same == {i \in cur : /\ g[i].object_id = Nullable(b.object_id)
                             /\ g[i].object_value = Nullable(b.object_value)}
        new  == [id |-> RelationshipIds[Len(g) + 1], subject_id |-> b.subject_id,
                 predicate |-> b.predicate, object_name |-> Undefined,
                 object_id |-> Nullable(b.object_id),
                 object_value |-> Nullable(b.object_value), valid_to |-> Null]
    IN  IF (b.object_id = Undefined) = (b.object_value = Undefined)
        THEN [status |-> 422, text |-> <<"{\"detail\":\"Unprocessable\"}">>,
              json |-> NoJson, graph |-> g]
        ELSE IF same # {}
        THEN [status |-> 200, text |-> <<>>,
              json |-> [relationship_id |-> g[CHOOSE i \in same : TRUE].id],
              graph |-> g]
        ELSE [status |-> 200, text |-> <<>>, json |-> [relationship_id |-> new.id],
              graph |-> [i \in 1..Len(g) |->
                            IF i \in cur THEN [g[i] EXCEPT !.valid_to = "now"]
                            ELSE g[i]] \o <<new>>]

\* the answer used where fetch never reaches the service
Unserved == [status |-> 0, text |-> <<>>, json |-> NoJson]

\* Fetched with one more attempt after a failed fetch
FetchedWithRetry(req, net) ==
    IF net.kind \in {"connerr", "timeout"} THEN <<req, req>> ELSE <<req>>

\* the fetch calls one request() makes: one, whatever becomes of it
Fetched(req, net) == <<req>>

\* one round trip: the request, what fetch did with it, the service's answer
RoundTrip(req, net, answer) ==
    request(req, Fetch(net, IF net.kind = "served" THEN answer ELSE Unserved))

-----------------------------------------------------------------------------
(* What an invocation of a tool, hook, gateway method or command did *)

\* execute returned {content: [{type: "text", text}]}
Returned(text, sent) ==
    [outcome |-> "returned", value |-> "content", text |-> text, message |-> <<>>,
     sent |-> sent, logs |-> <<>>]

\* the handler returned undefined, having logged or printed logs
ReturnedNothing(sent, logs) ==
    [outcome |-> "returned", value |-> Undefined, text |-> <<>>, message |-> <<>>,
     sent |-> sent, logs |-> logs]

\* the promise rejected with Error(message)
Threw(message, sent) ==
    [outcome |-> "threw", value |-> Undefined, text |-> <<>>, message |-> message,
     sent |-> sent, logs |-> <<>>]

-----------------------------------------------------------------------------
(* memory_wisdom *)

ReasoningShown == 200

\* one line of the search listing
WisdomLine(w) ==
    LET scoreStr == IF w.feedback_score # Null
                    THEN <<" (", w.feedback_score, "/5)">> ELSE <<>>
    IN  <<"- [", w.outcome>> \o scoreStr \o <<"] ", w.action_type, ": ">>
        \o slice(w.reasoning, 0, ReasoningShown)

WisdomListing(results, count) ==
    <<"Found ", ToString(count), " wisdom entries:\n">>
    \o join([i \in 1..Len(results) |-> WisdomLine(results[i])], <<"\n">>)

\* the validation of each action: TRUE when a required parameter is missing
WisdomLogInvalid(params) == Falsy(params.action_type) \/ params.reasoning = <<>>
WisdomOutcomeInvalid(params) == Falsy(params.wisdom_id) \/ Falsy(params.outcome)
\* WisdomFeedbackInvalid refusing feedback for an entry without an outcome
WisdomFeedbackAfterOutcome(params) ==
    \/ Falsy(params.wisdom_id)
    \/ params.score = Undefined
    \/ (params.wisdom_id \in DOMAIN wisdom /\ wisdom[params.wisdom_id].outcome = Null)

\* WisdomFeedbackInvalid without the check of the score
WisdomFeedbackIdOnly(params) == Falsy(params.wisdom_id)
WisdomFeedbackInvalid(params) == Falsy(params.wisdom_id) \/ params.score = Undefined
WisdomSearchInvalid(params) == Falsy(params.query)

\* the request each action forwards
WisdomLogRequest(params) ==
    logReasoning([action_type |-> params.action_type, reasoning |-> params.reasoning,
                  trigger |-> params.trigger, context |-> params.context])
\* WisdomOutcomeRequest with outcome and details in each other's place
WisdomOutcomeSwapped(params) ==
    recordOutcome(params.wisdom_id, params.details, params.outcome)

WisdomOutcomeRequest(params) ==
    recordOutcome(params.wisdom_id, params.outcome, params.details)
WisdomFeedbackRequest(params) ==
    addFeedback(params.wisdom_id, params.score, params.notes)
WisdomSearchRequest(params) == searchWisdom(params.query, {})

\* createMemoryWisdom(client).execute: svc is the service's wisdom entries,
\* net what fetch does, hits the ranking a search comes back with
MemoryWisdomExecute(params, svc, net, hits) ==
    LET Result(req) == RoundTrip(req, net, ServeWisdom(svc, req, hits))
    IN  CASE params.action = "log" ->
                IF WisdomLogInvalid(params)
                THEN Returned(<<"Error: ", "'action_type' and 'reasoning' required for log action">>,
                              <<>>)
                ELSE LET req == WisdomLogRequest(params)
                         res == Result(req)
                     IN  IF res.ok
                         THEN Returned(<<"Logged reasoning: ", res.value.wisdom_id>>, Fetched(req, net))
                         ELSE Threw(res.message, Fetched(req, net))
          [] params.action = "outcome" ->
                IF WisdomOutcomeInvalid(params)
                THEN Returned(<<"Error: ", "'wisdom_id' and 'outcome' required">>, <<>>)
                ELSE LET req == WisdomOutcomeRequest(params)
                         res == Result(req)
                     IN  IF res.ok
                         THEN Returned(<<"Recorded outcome for ", params.wisdom_id, ": ",
                                         params.outcome>>, Fetched(req, net))
                         ELSE Threw(res.message, Fetched(req, net))
          [] params.action = "feedback" ->
                IF WisdomFeedbackInvalid(params)
                THEN Returned(<<"Error: ", "'wisdom_id' and 'score' required">>, <<>>)
                ELSE LET req == WisdomFeedbackRequest(params)
                         res == Result(req)
                     IN  IF res.ok
                         THEN Returned(<<"Added feedback for ", params.wisdom_id, ": ",
                                         params.score, "/5">>, Fetched(req, net))
                         ELSE Threw(res.message, Fetched(req, net))
          [] params.action = "search" ->
                IF WisdomSearchInvalid(params)
                THEN Returned(<<"Error: ", "'query' required for search action">>, <<>>)
                ELSE LET req == WisdomSearchRequest(params)
                         res == Result(req)
                     IN  IF ~res.ok THEN Threw(res.message, Fetched(req, net))
                         ELSE IF res.value.count = 0
                         THEN Returned(<<"No wisdom entries found.">>, Fetched(req, net))
                         ELSE Returned(WisdomListing(res.value.results, res.value.count),
                                       Fetched(req, net))

-----------------------------------------------------------------------------
(* memory_search, memory_store, memory_forget *)

DefaultSearchLimit == 5

\* Number.prototype.toFixed(3) of a score given in thousandths
toFixed3(n) ==
    LET frac == n % 1000
    IN  <<ToString(n \div 1000), ".",
          IF frac < 10 THEN "00" ELSE IF frac < 100 THEN "0" ELSE "", ToString(frac)>>

MemoryLine(m, i) ==
    LET subject == IF Falsy(m.subject) THEN <<>> ELSE <<"[", m.subject, "] ">>
        score   == IF m.imp_score = {} \/ m.imp_score = {0} THEN <<>>
                   ELSE <<" (score: ">> \o toFixed3(Given(m.imp_score, 0)) \o <<")">>
    IN  <<ToString(i), ". ">> \o subject \o <<m.content>> \o score
        \o <<"\n   id: ", m.id, " | category: ", m.category,
             " | confidence: ", m.confidence>>

MemoryListing(results, count) ==
    <<"Found ", ToString(count), " memories:\n\n">>
    \o join([i \in 1..Len(results) |-> MemoryLine(results[i], i)], <<"\n\n">>)

\* MemorySearchRequest without the default of the limit
MemorySearchRequestNoDefault(params) ==
    searchMemories([query |-> params.query, limit |-> params.limit,
                    category |-> params.category, subject |-> params.subject])

MemorySearchRequest(params) ==
    searchMemories([query |-> params.query,
                    limit |-> {Given(params.limit, DefaultSearchLimit)},
                    category |-> params.category, subject |-> params.subject])

\* createMemorySearch(client).execute
MemorySearchExecute(params, net, hits) ==
    LET req == MemorySearchRequest(params)
        res == RoundTrip(req, net, ServeMemorySearch(req, hits))
    IN  IF ~res.ok THEN Threw(res.message, Fetched(req, net))
        ELSE IF res.value.count = 0 THEN Returned(<<"No memories found.">>, Fetched(req, net))
        ELSE Returned(MemoryListing(res.value.results, res.value.count), Fetched(req, net))

\* MemoryStoreRequest with content and confidence in each other's place
MemoryStoreRequestMixed(params) ==
    storeMemory([content |-> IF params.confidence = Undefined THEN "1"
                             ELSE params.confidence,
                 category |-> params.category, subject |-> params.subject,
                 confidence |-> params.content, source |-> "openclaw"])

MemoryStoreRequest(params) ==
    storeMemory([content |-> params.content, category |-> params.category,
                 subject |-> params.subject,
                 confidence |-> IF params.confidence = Undefined THEN "1"
                                ELSE params.confidence,
                 source |-> "openclaw"])

\* createMemoryStore(client).execute
MemoryStoreExecute(params, mem, net) ==
    LET req == MemoryStoreRequest(params)
        res == RoundTrip(req, net, ServeMemoryStore(mem, req))
    IN  IF res.ok THEN Returned(<<"Stored memory: ", res.value.memory_id>>, Fetched(req, net))
        ELSE Threw(res.message, Fetched(req, net))

\* createMemoryForget(client).execute: the only execute with a try/catch
MemoryForgetExecute(params, net) ==
    LET req == deleteMemory(params.id)
        res == RoundTrip(req, net, ServeMemoryDelete(req))
    IN  IF res.ok THEN Returned(<<"Deleted memory: ", params.id>>, Fetched(req, net))
        ELSE Returned(<<"Failed to delete memory ", params.id, ": ">> \o res.message,
                      Fetched(req, net))

-----------------------------------------------------------------------------
(* memory_graph *)

\* the dash before "id" is an em dash in the source
EntityLine(e) == <<"- ", e.name, " (", e.entity_type, ") - id: ", e.id>>

EntityListing(results, count) ==
    <<"Found ", ToString(count), " entities:\n">>
    \o join([i \in 1..Len(results) |-> EntityLine(results[i])], <<"\n">>)

\* a ?? b
Coalesce(a, b) == IF a \in {Undefined, Null} THEN b ELSE a

RelationLine(pred, rel) ==
    <<"- ", pred, ": ",
      Coalesce(rel.object_name, Coalesce(rel.object_value, rel.object_id))>>

RECURSIVE RelationLines(_)
RelationLines(groups) ==
    IF groups = <<>> THEN <<>>
    ELSE [i \in 1..Len(groups[1].rels) |-> RelationLine(groups[1].pred, groups[1].rels[i])]
         \o RelationLines(Tail(groups))

ProfileText(profile) ==
    join(<< <<"# ", profile.entity.name, " (", profile.entity.entity_type, ")">> >>
         \o RelationLines(profile.relationships), <<"\n">>)

\* the validation of each action: TRUE when a required parameter is missing
GraphSearchInvalid(params) == Falsy(params.query)
GraphProfileInvalid(params) == Falsy(params.entity_id)
GraphSubjectInvalid(params) == Falsy(params.subject_id) \/ Falsy(params.predicate)
GraphObjectInvalid(params) == Falsy(params.object_id) /\ Falsy(params.object_value)

GraphSearchRequest(params) == searchEntities(params.query, params.entity_type, {})
GraphProfileRequest(params) == getEntityProfile(params.entity_id)
\* GraphRelationshipRequest without the object_value
GraphRelationshipNoValue(params) ==
    addRelationship([subject_id |-> params.subject_id, predicate |-> params.predicate,
                     object_id |-> params.object_id, object_value |-> Undefined])

GraphRelationshipRequest(params) ==
    addRelationship([subject_id |-> params.subject_id, predicate |-> params.predicate,
                     object_id |-> params.object_id,
                     object_value |-> params.object_value])

\* createMemoryGraph(client).execute
MemoryGraphExecute(params, g, net, hits, rels) ==
    CASE params.action = "search" ->
            IF GraphSearchInvalid(params)
            THEN Returned(<<"Error: ", "'query' required for search action">>, <<>>)
            ELSE LET req == GraphSearchRequest(params)
                     res == RoundTrip(req, net, ServeEntitySearch(req, hits))
                 IN  IF ~res.ok THEN Threw(res.message, Fetched(req, net))
                     ELSE IF res.value.count = 0
                     THEN Returned(<<"No entities found.">>, Fetched(req, net))
                     ELSE Returned(EntityListing(res.value.results, res.value.count),
                                   Fetched(req, net))
      [] params.action = "profile" ->
            IF GraphProfileInvalid(params)
            THEN Returned(<<"Error: ", "'entity_id' required for profile action">>, <<>>)
            ELSE LET req == GraphProfileRequest(params)
                     res == RoundTrip(req, net, ServeProfile(req, rels, g))
                 IN  IF res.ok THEN Returned(ProfileText(res.value), Fetched(req, net))
                     ELSE Threw(res.message, Fetched(req, net))
      [] params.action = "add_relationship" ->
            IF GraphSubjectInvalid(params)
            THEN Returned(<<"Error: ", "'subject_id' and 'predicate' required for add_relationship">>,
                          <<>>)
            ELSE IF GraphObjectInvalid(params)
            THEN Returned(<<"Error: ", "either 'object_id' or 'object_value' required">>, <<>>)
            ELSE LET req == GraphRelationshipRequest(params)
                     res == RoundTrip(req, net, ServeRelationship(g, req))
                 IN  IF res.ok
                     THEN Returned(<<"Created relationship: ", res.value.relationship_id>>,
                                   Fetched(req, net))
                     ELSE Threw(res.message, Fetched(req, net))

-----------------------------------------------------------------------------
(* Event payloads: untyped values *)

StrV(chars) == [type |-> "string", chars |-> chars]
UndefV == [type |-> "undefined", chars |-> <<>>]
\* an object or array; chars is what JSON.stringify makes of it
ObjV(json) == [type |-> "object", chars |-> json]

\* !v for a value that is a string, undefined or null
FalsyV(v) == v.type \in {"undefined", "null"} \/ (v.type = "string" /\ v.chars = <<>>)

\* typeof content === "string" ? content : JSON.stringify(content)
Stringified(content) ==
    IF content.type = "string" THEN content
    ELSE IF content.type = "undefined" THEN UndefV
    ELSE StrV(content.chars)

\* `${v}` for a string or undefined
Interpolated(v) ==
    IF v.type = "undefined" THEN <<"u", "n", "d", "e", "f", "i", "n", "e", "d">>
    ELSE v.chars

RoleText(role) ==
    CASE role = "user"      -> <<"u", "s", "e", "r">>
      [] role = "assistant" -> <<"a", "s", "s", "i", "s", "t", "a", "n", "t">>
      [] role = "system"    -> <<"s", "y", "s", "t", "e", "m">>

TypeErrorMessage == <<"Cannot read properties of null (reading 'role')">>

\* extractUserMessage: [threw, value]; a null element of messages throws
RECURSIVE LastUserMessage(_, _)
LastUserMessage(items, i) ==
    IF i < 1 THEN [threw |-> FALSE, value |-> [type |-> "null", chars |-> <<>>]]
    ELSE IF items[i].kind = "null" THEN [threw |-> TRUE, value |-> UndefV]
    ELSE IF items[i].role = "user"
    THEN [threw |-> FALSE, value |-> Stringified(items[i].content)]
    ELSE LastUserMessage(items, i - 1)

extractUserMessage(event) ==
    IF event.userMessage.type = "string"
    THEN [threw |-> FALSE, value |-> event.userMessage]
    ELSE IF event.messages.present
    THEN LastUserMessage(event.messages.items, Len(event.messages.items))
    ELSE [threw |-> FALSE, value |-> [type |-> "null", chars |-> <<>>]]

\* the parts extractConversation collects, in message order
RECURSIVE ConversationParts(_)
ConversationParts(items) ==
    IF items = <<>> THEN <<>>
    ELSE LET msg == items[1]
         IN  (IF msg.role \in {"user", "assistant"}
              THEN << RoleText(msg.role) \o <<":", " ">>
                      \o Interpolated(Stringified(msg.content)) >>
              ELSE <<>>)
             \o ConversationParts(Tail(items))

\* extractConversation: [threw, value]
extractConversation(event) ==
    IF ~event.messages.present
    THEN [threw |-> FALSE, value |-> [type |-> "null", chars |-> <<>>]]
    ELSE IF \E i \in 1..Len(event.messages.items) : event.messages.items[i].kind = "null"
    THEN [threw |-> TRUE, value |-> UndefV]
    ELSE LET parts == ConversationParts(event.messages.items)
         IN  [threw |-> FALSE,
              value |-> IF Len(parts) > 0 THEN StrV(join(parts, <<"\n", "\n">>))
                        ELSE [type |-> "null", chars |-> <<>>]]

-----------------------------------------------------------------------------
(* The hooks *)

CharsPerToken == 4
MinCaptureLen == 50

\* "\n[truncated]"
TruncationMarker == <<"\n", "[", "t", "r", "u", "n", "c", "a", "t", "e", "d", "]">>
\* "<long_term_memory>\n"
OpenTag ==
    <<"<", "l", "o", "n", "g", "_", "t", "e", "r", "m", "_",
      "m", "e", "m", "o", "r", "y", ">", "\n">>
\* "\n</long_term_memory>"
CloseTag ==
    <<"\n", "<", "/", "l", "o", "n", "g", "_", "t", "e", "r", "m", "_",
      "m", "e", "m", "o", "r", "y", ">">>

\* Truncated with the cut keeping the tail of the text instead of its head
TruncatedFromCut(context, maxRecallTokens) ==
    LET maxChars == maxRecallTokens * CharsPerToken
    IN  IF Len(context) > maxChars
        THEN slice(context, maxChars, Len(context)) \o TruncationMarker
        ELSE context

\* the context text cut to maxRecallTokens
Truncated(context, maxRecallTokens) ==
    LET maxChars == maxRecallTokens * CharsPerToken
    IN  IF Len(context) > maxChars
        THEN slice(context, 0, maxChars) \o TruncationMarker
        ELSE context

\* the hook returned {prependContext: text}
ReturnedContext(text, sent) ==
    [outcome |-> "returned", value |-> "prependContext", text |-> text,
     message |-> <<>>, sent |-> sent, logs |-> <<>>]

Warn(prefix, message) == <<[level |-> "warn", msg |-> <<prefix>> \o message]>>

RecallRequest(cfg, userMessage) ==
    getContext([query |-> userMessage.chars, core_limit |-> cfg.maxRecallResults,
                relevant_limit |-> CeilHalf(cfg.maxRecallResults),
                use_semantic |-> TRUE])

\* RecallCatch letting the error through to the host
RecallRethrow(message, sent) == Threw(message, sent)

\* the catch blocks of the two hooks: warn, return nothing
RecallCatch(message, sent) == ReturnedNothing(sent, Warn("Auto-recall failed: ", message))
CaptureCatch(message, sent) == ReturnedNothing(sent, Warn("Auto-capture failed: ", message))

\* the before_agent_start handler; n is the length of the context served
BeforeAgentStart(cfg, event, net, n) ==
    IF ~cfg.autoRecall THEN ReturnedNothing(<<>>, <<>>)
    ELSE LET userMessage == extractUserMessage(event)
         IN  IF userMessage.threw THEN Threw(TypeErrorMessage, <<>>)
             ELSE IF FalsyV(userMessage.value) THEN ReturnedNothing(<<>>, <<>>)
             ELSE LET req == RecallRequest(cfg, userMessage.value)
                      res == RoundTrip(req, net, ServeContext(req, n))
                  IN  IF ~res.ok
                      THEN RecallCatch(res.message, Fetched(req, net))
                      ELSE IF Len(res.value.context) > 0
                      THEN ReturnedContext(
                               OpenTag \o Truncated(res.value.context, cfg.maxRecallTokens)
                               \o CloseTag, Fetched(req, net))
                      ELSE ReturnedNothing(Fetched(req, net), <<>>)

\* the try block of the agent_end handler and its catch
Capture(cfg, event, net) ==
    LET conversationText == extractConversation(event)
    IN  IF conversationText.threw
        THEN CaptureCatch(TypeErrorMessage, <<>>)
        ELSE IF FalsyV(conversationText.value)
                \/ Len(conversationText.value.chars) < MinCaptureLen
        THEN ReturnedNothing(<<>>, <<>>)
        ELSE LET req == extract(conversationText.value.chars, Undefined)
                 res == RoundTrip(req, net, ServeExtract(req))
             IN  IF res.ok THEN ReturnedNothing(Fetched(req, net), <<>>)
                 ELSE CaptureCatch(res.message, Fetched(req, net))

\* AgentEnd switched by autoRecall instead of autoCapture
AgentEndOnRecall(cfg, event, net) ==
    IF ~cfg.autoRecall THEN ReturnedNothing(<<>>, <<>>)
    ELSE Capture(cfg, event, net)

\* the agent_end handler
AgentEnd(cfg, event, net) ==
    IF ~cfg.autoCapture THEN ReturnedNothing(<<>>, <<>>)
    ELSE Capture(cfg, event, net)

-----------------------------------------------------------------------------
(* The background service, the gateway methods and the CLI commands *)

Log(level, msg) == <<[level |-> level, msg |-> msg]>>

\* registerService start()
ServiceStart(cfg, net) ==
    LET res == RoundTrip(health, net, ServeHealth)
    IN  IF res.ok
        THEN ReturnedNothing(Fetched(health, net), Log("info", <<"maasv connected: ", res.value.status>>))
        ELSE ReturnedNothing(Fetched(health, net),
                 Log("error", <<"Failed to connect to maasv-server at ", cfg.serverUrl, ": ">>
                              \o res.message))

\* maasv.status and maasv.stats
GatewayMethod(req, net, answer) ==
    LET res == RoundTrip(req, net, answer)
    IN  IF res.ok THEN ReturnedNothing(Fetched(req, net), Log("respond true", <<>>))
        ELSE ReturnedNothing(Fetched(req, net), Log("respond false", res.message))

\* maasv health
CliHealth(net) ==
    LET res == RoundTrip(health, net, ServeHealth)
    IN  IF res.ok
        THEN ReturnedNothing(Fetched(health, net), Log("console.log", <<"Status: ", res.value.status>>))
        ELSE ReturnedNothing(Fetched(health, net),
                             Log("console.error", <<"Connection failed: ">> \o res.message))

\* maasv stats
CliStats(net) ==
    LET res == RoundTrip(stats, net, ServeStats)
    IN  IF res.ok
        THEN ReturnedNothing(Fetched(stats, net), Log("console.log", <<res.value.memories>>))
        ELSE ReturnedNothing(Fetched(stats, net), Log("console.error", <<"Failed: ">> \o res.message))

Digits == <<"0", "1", "2", "3", "4", "5", "6", "7", "8", "9">>
DigitValue(c) == (CHOOSE i \in 1..Len(Digits) : Digits[i] = c) - 1
IsDigit(c) == \E i \in 1..Len(Digits) : Digits[i] = c

\* parseInt(chars, 10) of an unsigned text: the leading digits, {} for NaN
RECURSIVE ParseDigits(_, _)
ParseDigits(chars, acc) ==
    IF chars = <<>> \/ ~IsDigit(chars[1]) THEN acc
    ELSE ParseDigits(Tail(chars), 10 * acc + DigitValue(chars[1]))

parseInt(chars) ==
    IF chars = <<>> \/ ~IsDigit(chars[1]) THEN {} ELSE {ParseDigits(chars, 0)}

CliMemoryLine(m) ==
    <<m.id, ": ">> \o (IF Falsy(m.subject) THEN <<>> ELSE <<"[", m.subject, "] ">>)
    \o <<m.content>>

CliSearchRequest(query, limit) ==
    searchMemories([query |-> query, limit |-> parseInt(limit),
                    category |-> Undefined, subject |-> Undefined])

\* maasv search <query> [-n limit]
CliSearch(query, limit, net, hits) ==
    LET req == CliSearchRequest(query, limit)
        res == RoundTrip(req, net, ServeMemorySearch(req, hits))
    IN  IF ~res.ok
        THEN ReturnedNothing(Fetched(req, net), Log("console.error", <<"Search failed: ">> \o res.message))
        ELSE IF Len(res.value.results) = 0
        THEN ReturnedNothing(Fetched(req, net), Log("console.log", <<"No memories found.">>))
        ELSE ReturnedNothing(Fetched(req, net),
                 [i \in 1..Len(res.value.results) |->
                     [level |-> "console.log", msg |-> CliMemoryLine(res.value.results[i])]])

-----------------------------------------------------------------------------
(* register: the configuration and the tools it registers *)

DEFAULT_CONFIG ==
    [serverUrl |-> "http://127.0.0.1:18790", autoRecall |-> TRUE, autoCapture |-> TRUE,
     maxRecallResults |-> 5, maxRecallTokens |-> 2000,
     enableGraph |-> TRUE, enableWisdom |-> FALSE]

\* { ...DEFAULT_CONFIG, ...rawConfig }
MergeConfig(rawConfig) ==
    [k \in DOMAIN DEFAULT_CONFIG |->
        IF k \in DOMAIN rawConfig THEN rawConfig[k] ELSE DEFAULT_CONFIG[k]]

\* RegisteredTools with memory_wisdom behind the switch of memory_graph
RegisteredToolsOneSwitch(cfg) ==
    {"memory_search", "memory_store", "memory_forget"}
    \cup (IF cfg.enableGraph THEN {"memory_graph", "memory_wisdom"} ELSE {})

RegisteredTools(cfg) ==
    {"memory_search", "memory_store", "memory_forget"}
    \cup (IF cfg.enableGraph THEN {"memory_graph"} ELSE {})
    \cup (IF cfg.enableWisdom THEN {"memory_wisdom"} ELSE {})

-----------------------------------------------------------------------------
(* Inputs *)

RecallTokens == {-1, 0, 1, 2}

\* what the host passes as api.pluginConfig
RawConfigs ==
    {[autoRecall |-> FALSE, autoCapture |-> FALSE],
     [autoRecall |-> FALSE, enableGraph |-> FALSE],
     [autoCapture |-> FALSE, enableGraph |-> FALSE],
     [enableWisdom |-> TRUE, enableGraph |-> FALSE,
      autoRecall |-> FALSE, autoCapture |-> FALSE]}
    \cup {[maxRecallTokens |-> n, enableGraph |-> FALSE] : n \in RecallTokens}

Served == [kind |-> "served", status |-> 0]

WisdomParams ==
    LET P(action, at, rs, id, oc, sc, q) ==
            [action |-> action, action_type |-> at, reasoning |-> rs,
             trigger |-> Undefined, context |-> Undefined, wisdom_id |-> id,
             outcome |-> oc, details |-> Undefined, score |-> sc,
             notes |-> Undefined, query |-> q]
        \* w1 is the first entry logged; w9 is never logged
        ids == {Undefined, "w1", "w9"}
    IN  {P("log", at, rs, Undefined, Undefined, Undefined, Undefined) :
            at \in {Undefined, "deploy"}, rs \in {<<>>, <<"o", "k">>}}
        \cup {P("outcome", Undefined, <<>>, id, oc, Undefined, Undefined) :
            id \in ids, oc \in {Undefined, "success", "failed"}}
        \cup {P("feedback", Undefined, <<>>, id, Undefined, sc, Undefined) :
            id \in ids, sc \in {Undefined, "4"}}
        \cup {P("search", Undefined, <<>>, Undefined, Undefined, Undefined, q) :
            q \in {Undefined, "", "deploy"}}

GraphParams ==
    LET P(action, q, eid, sid, pred, oid, oval) ==
            [action |-> action, query |-> q, entity_id |-> eid,
             entity_type |-> Undefined, subject_id |-> sid, predicate |-> pred,
             object_id |-> oid, object_value |-> oval]
    IN  {P("search", q, Undefined, Undefined, Undefined, Undefined, Undefined) :
            q \in {Undefined, "Alice"}}
        \cup {P("profile", Undefined, eid, Undefined, Undefined, Undefined, Undefined) :
            eid \in {Undefined, "e1", "e9"}}
        \cup {P("add_relationship", Undefined, Undefined, "e1", "works_on", obj[1], obj[2]) :
            obj \in {<<Undefined, Undefined>>, <<"e2", Undefined>>,
                     <<Undefined, "ProjectX">>, <<Undefined, "ProjectY">>,
                     <<"e2", "ProjectX">>}}
        \cup {P("add_relationship", Undefined, Undefined, Undefined, "works_on",
                Undefined, "ProjectX"),
              P("add_relationship", Undefined, Undefined, "e1", Undefined,
                Undefined, "ProjectX")}

SearchParams ==
    {[query |-> "coffee", limit |-> l, category |-> Undefined, subject |-> Undefined] :
        l \in {{}, {0}, {1}}}

StoreParams ==
    {[content |-> "likes jam", category |-> "preference", subject |-> Undefined,
      confidence |-> c] : c \in {Undefined, "0.5"}}

ForgetParams == {[id |-> id] : id \in {"m1", "m9"}}

Message(role, content) == [kind |-> "object", role |-> role, content |-> content]
NullItem == [kind |-> "null", role |-> Undefined, content |-> UndefV]
NoMessages == [present |-> FALSE, items |-> <<>>]
Messages(items) == [present |-> TRUE, items |-> items]

Events ==
    {[userMessage |-> StrV(Ctx(2)), messages |-> NoMessages],
     [userMessage |-> StrV(<<>>), messages |-> NoMessages],
     [userMessage |-> UndefV, messages |-> NoMessages],
     [userMessage |-> UndefV,
      messages |-> Messages(<<Message("user", StrV(Ctx(3)))>>)],
     [userMessage |-> UndefV,
      messages |-> Messages(<<Message("system", StrV(Ctx(60))),
                              Message("user", StrV(Ctx(3))),
                              Message("assistant", StrV(Ctx(40)))>>)],
     [userMessage |-> UndefV,
      messages |-> Messages(<<Message("user", ObjV(Ctx(5))), NullItem>>)],
     [userMessage |-> UndefV,
      messages |-> Messages(<<NullItem, Message("user", ObjV(Ctx(50)))>>)],
     [userMessage |-> UndefV,
      messages |-> Messages(<<Message("user", StrV(Ctx(MinCaptureLen - 6)))>>)],
     [userMessage |-> UndefV,
      messages |-> Messages(<<Message("user", StrV(Ctx(MinCaptureLen - 7)))>>)]}

-----------------------------------------------------------------------------
(* The state machine *)

Invocation(op, params, net, pick, result) ==
    [op |-> op, params |-> params, net |-> net, pick |-> pick, result |-> result]

\* no request() call in the slot
Idle ==
    [phase |-> "idle", req |-> health, elapsed |-> 0, timer |-> FALSE, status |-> 0]

\* no request() call has settled yet
NoCall ==
    [req |-> health, status |-> 0, text |-> <<>>, textRead |-> FALSE,
     result |-> [ok |-> TRUE, value |-> NoJson, message |-> <<>>]]

\* register(api) with api.pluginConfig = rawConfig
InitPlugin(rawConfig) ==
    /\ config = MergeConfig(rawConfig)
    /\ wisdom = [id \in {WisdomIds[i] : i \in 1..Len(WisdomIds)} |-> NoEntry]
    /\ graph = <<>>
    /\ memories = <<>>
    /\ last = Invocation("register", rawConfig, [kind |-> "none", status |-> 0], <<>>,
                         ReturnedNothing(<<>>, <<>>))

InitClient ==
    /\ calls = [c \in 1..MaxCalls |-> Idle]
    /\ done = NoCall

Init ==
    /\ \E rawConfig \in RawConfigs : InitPlugin(rawConfig)
    /\ InitClient

\* the service handles the request that reached it
WisdomAfter(sent, net, hits) ==
    IF sent # <<>> /\ net.kind = "served"
    THEN ServeWisdom(wisdom, sent[1], hits).wisdom
    ELSE wisdom

ExecMemoryWisdom ==
    /\ "memory_wisdom" \in RegisteredTools(config)
    /\ \E params \in WisdomParams, net \in FetchOutcomes, hits \in Rankings(wisdom) :
        /\ hits # <<>> => net.kind = "served" /\ params.action = "search"
        /\ (params.action = "log" /\ net.kind = "served")
               => Logged(wisdom) # DOMAIN wisdom
        /\ LET result == MemoryWisdomExecute(params, wisdom, net, hits)
           IN  /\ result.sent = <<>> => net = Served
               /\ last' = Invocation("memory_wisdom", params, net, hits, result)
               /\ wisdom' = WisdomAfter(result.sent, net, hits)
    /\ UNCHANGED <<config, graph, memories, calls, done>>

\* the service handles the relationship request that reached it
GraphAfter(sent, net) ==
    IF sent # <<>> /\ net.kind = "served" /\ sent[1].path = <<"/v1/graph/relationships">>
    THEN ServeRelationship(graph, sent[1]).graph
    ELSE graph

ExecMemoryGraph ==
    /\ "memory_graph" \in RegisteredTools(config)
    /\ \E params \in GraphParams, net \in FetchOutcomes,
          hits \in EntityRankings, rels \in ProfileRelationships :
        /\ hits # <<>> => net.kind = "served" /\ params.action = "search"
        /\ rels # <<>> => net.kind = "served" /\ params.action = "profile"
        /\ (params.action = "add_relationship" /\ net.kind = "served")
               => Len(graph) < MaxRelationships
        /\ LET result == MemoryGraphExecute(params, graph, net, hits, rels)
           IN  /\ result.sent = <<>> => net = Served
               /\ last' = Invocation("memory_graph", params, net, <<>>, result)
               /\ graph' = GraphAfter(result.sent, net)
    /\ UNCHANGED <<config, wisdom, memories, calls, done>>

ExecMemorySearch ==
    /\ "memory_search" \in RegisteredTools(config)
    /\ \E params \in SearchParams, net \in FetchOutcomes, hits \in MemoryRankings :
        /\ hits # <<>> => net.kind = "served"
        /\ last' = Invocation("memory_search", params, net, hits,
                              MemorySearchExecute(params, net, hits))
    /\ UNCHANGED <<config, wisdom, graph, memories, calls, done>>

\* the service handles the store request that reached it
MemoriesAfter(sent, net) ==
    IF sent # <<>> /\ net.kind = "served"
    THEN ServeMemoryStore(memories, sent[1]).memories
    ELSE memories

ExecMemoryStore ==
    /\ "memory_store" \in RegisteredTools(config)
    /\ \E params \in StoreParams, net \in FetchOutcomes :
        LET result == MemoryStoreExecute(params, memories, net)
        IN  /\ last' = Invocation("memory_store", params, net, <<>>, result)
            /\ memories' = MemoriesAfter(result.sent, net)
    /\ UNCHANGED <<config, wisdom, graph, calls, done>>

ExecMemoryForget ==
    /\ "memory_forget" \in RegisteredTools(config)
    /\ \E params \in ForgetParams, net \in FetchOutcomes :
        last' = Invocation("memory_forget", params, net, <<>>,
                           MemoryForgetExecute(params, net))
    /\ UNCHANGED <<config, wisdom, graph, memories, calls, done>>

\* where no request is sent the outcome of the network is no input, and
\* the outcomes and context lengths are varied on the event that carries
\* userMessage
OnBeforeAgentStart ==
    /\ \E event \in Events, net \in FetchOutcomes, n \in 0..MaxCtxLen :
        /\ n # 0 => net.kind = "served"
        /\ event.messages.present => net = Served /\ n = 1
        /\ LET result == BeforeAgentStart(config, event, net, n)
           IN  /\ result.sent = <<>> => net = Served /\ n = 1
               /\ last' = Invocation("before_agent_start", event, net, <<n>>, result)
    /\ UNCHANGED <<config, wisdom, graph, memories, calls, done>>

OnAgentEnd ==
    /\ \E event \in Events, net \in FetchOutcomes :
        LET result == AgentEnd(config, event, net)
        IN  /\ result.sent = <<>> => net = Served
            /\ last' = Invocation("agent_end", event, net, <<>>, result)
    /\ UNCHANGED <<config, wisdom, graph, memories, calls, done>>

StartService ==
    /\ \E net \in FetchOutcomes :
        last' = Invocation("service.start", NoJson, net, <<>>, ServiceStart(config, net))
    /\ UNCHANGED <<config, wisdom, graph, memories, calls, done>>

GatewayStatus ==
    /\ \E net \in FetchOutcomes :
        last' = Invocation("maasv.status", NoJson, net, <<>>,
                           GatewayMethod(health, net, ServeHealth))
    /\ UNCHANGED <<config, wisdom, graph, memories, calls, done>>

GatewayStats ==
    /\ \E net \in FetchOutcomes :
        last' = Invocation("maasv.stats", NoJson, net, <<>>,
                           GatewayMethod(stats, net, ServeStats))
    /\ UNCHANGED <<config, wisdom, graph, memories, calls, done>>

CliHealthCommand ==
    /\ \E net \in FetchOutcomes :
        last' = Invocation("cli health", NoJson, net, <<>>, CliHealth(net))
    /\ UNCHANGED <<config, wisdom, graph, memories, calls, done>>

CliStatsCommand ==
    /\ \E net \in FetchOutcomes :
        last' = Invocation("cli stats", NoJson, net, <<>>, CliStats(net))
    /\ UNCHANGED <<config, wisdom, graph, memories, calls, done>>

CliSearchCommand ==
    /\ \E limit \in {<<"5">>, <<"1">>, <<"1", "x">>}, net \in FetchOutcomes,
          hits \in MemoryRankings :
        /\ hits # <<>> => net.kind = "served"
        /\ last' = Invocation("cli search", [query |-> "coffee", limit |-> limit], net,
                              hits, CliSearch("coffee", limit, net, hits))
    /\ UNCHANGED <<config, wisdom, graph, memories, calls, done>>

Next ==
    \/ ExecMemorySearch
    \/ ExecMemoryStore
    \/ ExecMemoryForget
    \/ ExecMemoryGraph
    \/ ExecMemoryWisdom
    \/ OnBeforeAgentStart
    \/ OnAgentEnd
    \/ StartService
    \/ GatewayStatus
    \/ GatewayStats
    \/ CliHealthCommand
    \/ CliStatsCommand
    \/ CliSearchCommand

Spec == Init /\ [][Next]_vars

-----------------------------------------------------------------------------
(* MaasvClient.request step by step: the timer, fetch, the body *)

REQUEST_TIMEOUT_MS == 30000

TickMs == REQUEST_TIMEOUT_MS \div TicksPerTimeout

\* the clock stops counting a call's age here
MaxElapsed == REQUEST_TIMEOUT_MS + TickMs

ClientRequests == {health, recordOutcome("w9", "success", Undefined)}

FailStatuses == {300, 404}
BodyTexts == {<<"{\"detail\":\"Not found\"}">>}

Pending(call) == call.phase \in {"fetching", "reading text", "reading json"}

\* the call settles with what request() makes of the response; the finally
\* has cleared its timer and its slot is free again
Settle(c, net, answer) ==
    /\ done' = [req |-> calls[c].req, status |-> calls[c].status,
                text |-> answer.text, textRead |-> net.kind = "served",
                result |-> RoundTrip(calls[c].req, net, answer)]
    /\ calls' = [calls EXCEPT ![c] = Idle]

\* lines 43-57: the timer is armed, fetch is called; the call takes the
\* first free slot
Issue(c) ==
    /\ calls[c].phase = "idle"
    /\ \A d \in 1..(c - 1) : calls[d].phase # "idle"
    /\ \E req \in ClientRequests :
        calls' = [calls EXCEPT ![c] =
                    [phase |-> "fetching", req |-> req, elapsed |-> 0,
                     timer |-> TRUE, status |-> 0]]
    /\ UNCHANGED <<config, wisdom, graph, memories, last, done>>

\* fetch rejects: the call rejects
FetchRejects(c) ==
    /\ calls[c].phase = "fetching"
    /\ Settle(c, [kind |-> "connerr", status |-> 0], Unserved)
    /\ UNCHANGED <<config, wisdom, graph, memories, last>>

\* fetch resolves with the response's status line and headers.  Not ok: the
\* body text is awaited inside the try.  Ok: response.json() is returned
\* without being awaited, so the finally clears the timer before the body
\* has been read.
ResponseArrives(c) ==
    /\ calls[c].phase = "fetching"
    /\ \E status \in FailStatuses \cup {200} :
        calls' = [calls EXCEPT ![c] =
                    IF ResponseOk(status)
                    THEN [@ EXCEPT !.phase = "reading json", !.status = status,
                                   !.timer = FALSE]
                    ELSE [@ EXCEPT !.phase = "reading text", !.status = status]]
    /\ UNCHANGED <<config, wisdom, graph, memories, last, done>>

\* the body arrives and is read
BodyArrives(c) ==
    /\ \/ /\ calls[c].phase = "reading text"
          /\ \E text \in BodyTexts :
                Settle(c, Served,
                       [status |-> calls[c].status, text |-> text, json |-> NoJson])
       \/ /\ calls[c].phase = "reading json"
          /\ Settle(c, Served,
                    [status |-> calls[c].status, text |-> <<>>,
                     json |-> [status |-> "healthy"]])
       \/ /\ calls[c].phase = "reading json"
          /\ Settle(c, [kind |-> "badjson", status |-> calls[c].status], Unserved)
    /\ UNCHANGED <<config, wisdom, graph, memories, last>>

\* the connection drops while the body is read
BodyFails(c) ==
    /\ \/ /\ calls[c].phase = "reading text"
          /\ Settle(c, [kind |-> "unreadable", status |-> calls[c].status], Unserved)
       \/ /\ calls[c].phase = "reading json"
          /\ Settle(c, [kind |-> "connerr", status |-> 0], Unserved)
    /\ UNCHANGED <<config, wisdom, graph, memories, last>>

\* a timer that is armed fires when its call is REQUEST_TIMEOUT_MS old
Due(call) == call.timer /\ call.elapsed >= REQUEST_TIMEOUT_MS

\* time passes for every call in flight; it stops at a timer that is due
Tick ==
    /\ \E c \in DOMAIN calls : Pending(calls[c]) /\ calls[c].elapsed < MaxElapsed
    /\ \A c \in DOMAIN calls : ~Due(calls[c])
    /\ calls' = [c \in DOMAIN calls |->
                    IF Pending(calls[c])
                    THEN [calls[c] EXCEPT !.elapsed = Min(@ + TickMs, MaxElapsed)]
                    ELSE calls[c]]
    /\ UNCHANGED <<config, wisdom, graph, memories, last, done>>

\* TimerFires with one controller shared by the calls: a timer that is due
\* aborts every call in flight
TimerFiresShared(c) ==
    /\ Pending(calls[c])
    /\ \E d \in DOMAIN calls : Due(calls[d])
    /\ IF calls[c].phase = "fetching"
       THEN Settle(c, [kind |-> "timeout", status |-> 0], Unserved)
       ELSE Settle(c, [kind |-> "unreadable", status |-> calls[c].status], Unserved)
    /\ UNCHANGED <<config, wisdom, graph, memories, last>>

\* line 45: the timer's callback aborts the controller: a pending fetch
\* rejects, a pending read of the error text rejects and is caught as ""
TimerFires(c) ==
    /\ Pending(calls[c])
    /\ Due(calls[c])
    /\ IF calls[c].phase = "fetching"
       THEN Settle(c, [kind |-> "timeout", status |-> 0], Unserved)
       ELSE Settle(c, [kind |-> "unreadable", status |-> calls[c].status], Unserved)
    /\ UNCHANGED <<config, wisdom, graph, memories, last>>

NextClient ==
    \/ Tick
    \/ \E c \in 1..MaxCalls :
        \/ Issue(c)
        \/ FetchRejects(c)
        \/ ResponseArrives(c)
        \/ BodyArrives(c)
        \/ BodyFails(c)
        \/ TimerFires(c)

\* the client alone, under the default configuration
InitOfClient ==
    /\ InitPlugin([serverUrl |-> "http://127.0.0.1:18790"])
    /\ InitClient

SpecClient == InitOfClient /\ [][NextClient]_vars

-----------------------------------------------------------------------------
(* Properties *)

Hooks == {"before_agent_start", "agent_end"}
Tools == {"memory_search", "memory_store", "memory_forget", "memory_graph",
          "memory_wisdom"}

\* the request failed: connection error, timeout abort or non-2xx
RequestFailed ==
    /\ last.result.sent # <<>>
    /\ last.net.kind \in {"connerr", "timeout", "httperr", "unreadable"}

RecallEmitted ==
    last.op = "before_agent_start" /\ last.result.value = "prependContext"

\* the budget of claim C1: 4*N characters and the length of the marker
RecallBudget == 4 * config.maxRecallTokens + Len(TruncationMarker)

\* C1 as stated: what the auto-recall hook emits, the prependContext text, is
\* never longer than 4*N characters plus the length of the truncation marker.
C1_EmittedWithinBudget ==
    RecallEmitted => Len(last.result.text) <= RecallBudget

\* the emitted text without its first Len(OpenTag) and last Len(CloseTag) characters
RecallInner ==
    SubSeq(last.result.text, Len(OpenTag) + 1, Len(last.result.text) - Len(CloseTag))

\* C1 amended: the hook emits the <long_term_memory> opening line, a text and
\* the closing line. For N >= 0 the text is the context served when that is
\* at most 4*N characters long, and otherwise its first 4*N characters followed
\* by the truncation marker, so it is never longer than 4*N characters plus
\* the length of the marker. For N < 0 the text is the context without its
\* last 4*|N| characters, followed by the marker.
C1_ContextWithinBudget ==
    RecallEmitted =>
        LET served == Ctx(last.pick[1])
            budget == 4 * config.maxRecallTokens
        IN  /\ last.result.text = OpenTag \o RecallInner \o CloseTag
            /\ budget >= 0 =>
                  /\ Len(RecallInner) <= RecallBudget
                  /\ Len(served) <= budget => RecallInner = served
                  /\ Len(served) > budget =>
                        RecallInner = SubSeq(served, 1, budget) \o TruncationMarker
            /\ budget < 0 =>
                  RecallInner = SubSeq(served, 1, Max(0, Len(served) + budget))
                                    \o TruncationMarker

\* C1 witness: a context longer than the budget was cut and marked
C1_Witness ==
    /\ RecallEmitted
    /\ config.maxRecallTokens = 2
    /\ Len(Ctx(last.pick[1])) > 8
    /\ Len(RecallInner) = 8 + Len(TruncationMarker)

\* C2: when the request of a hook fails (connection error, timeout abort or
\* non-2xx), the hook returns nothing to the host, having logged one warning:
\* it does not throw.
C2_HookSwallowsFailure ==
    (last.op \in Hooks /\ RequestFailed) =>
        /\ last.result.outcome = "returned"
        /\ last.result.value = Undefined
        /\ Len(last.result.logs) = 1
        /\ last.result.logs[1].level = "warn"
        /\ last.result.logs[1].msg[1] =
              (IF last.op = "before_agent_start" THEN "Auto-recall failed: "
               ELSE "Auto-capture failed: ")

\* C2 witness: the auto-recall request timed out
C2_Witness ==
    /\ last.op = "before_agent_start"
    /\ last.net.kind = "timeout"
    /\ last.result.sent # <<>>
    /\ last.result.outcome = "returned"

\* C3 as stated: every tool's execute answers a failed client call with a text
\* response; it does not throw.
C3_ToolsReturnError ==
    (last.op \in Tools /\ last.result.sent # <<>> /\ last.net.kind # "served") =>
        /\ last.result.outcome = "returned"
        /\ last.result.value = "content"

\* a parameter the action requires is missing from the call
Missing(op, p) ==
    IF op = "memory_wisdom"
    THEN CASE p.action = "log" -> p.action_type = Undefined \/ p.reasoning = <<>>
           [] p.action = "outcome" -> p.wisdom_id = Undefined \/ p.outcome = Undefined
           [] p.action = "feedback" -> p.wisdom_id = Undefined \/ p.score = Undefined
           [] p.action = "search" -> p.query = Undefined
    ELSE CASE p.action = "search" -> p.query = Undefined
           [] p.action = "profile" -> p.entity_id = Undefined
           [] p.action = "add_relationship" ->
                \/ p.subject_id = Undefined
                \/ p.predicate = Undefined
                \/ (p.object_id = Undefined /\ p.object_value = Undefined)

\* C4: a memory_graph or memory_wisdom call that lacks a parameter its action
\* requires returns a text response that begins "Error: ", does not throw,
\* sends no request, and leaves the service's entries as they were.
C4_MissingParameter ==
    [][(last'.op \in {"memory_graph", "memory_wisdom"} /\ Missing(last'.op, last'.params))
        => /\ last'.result.outcome = "returned"
           /\ last'.result.value = "content"
           /\ last'.result.text[1] = "Error: "
           /\ last'.result.sent = <<>>
           /\ wisdom' = wisdom
           /\ graph' = graph]_vars

\* C4 witness: feedback was asked for an entry without a score
C4_Witness ==
    /\ last.op = "memory_wisdom"
    /\ last.params.action = "feedback"
    /\ last.params.wisdom_id = "w1"
    /\ last.params.score = Undefined
    /\ last.result.text[1] = "Error: "
    /\ last.result.sent = <<>>

\* C5 as stated: no request() call is still in flight later than the timeout
\* after it was issued, whether it waits for fetch or reads the body.
C5_BoundedByTimeout ==
    \A c \in DOMAIN calls : Pending(calls[c]) => calls[c].elapsed <= REQUEST_TIMEOUT_MS

\* C6: no invocation of a tool, hook, gateway method or command puts more than
\* one HTTP request on the wire, whatever becomes of the request.
C6_SingleRoundTrip == Len(last.result.sent) <= 1

\* C6 witness: a request that timed out was sent once
C6_Witness ==
    /\ last.op = "memory_store"
    /\ last.net.kind = "timeout"
    /\ Len(last.result.sent) = 1

\* C7: a call whose response has a non-2xx status rejects, never resolves with
\* a value; the message names the method, the path and the status and ends
\* with the body text, or with nothing when the body could not be read.
C7_NonOkThrows ==
    (done.status # 0 /\ (done.status < 200 \/ done.status > 299)) =>
        LET message == done.result.message
            body    == IF done.textRead THEN done.text ELSE <<>>
        IN  /\ ~done.result.ok
            /\ done.result.value = NoJson
            /\ Contains(message, <<done.req.method>>)
            /\ Contains(message, done.req.path)
            /\ Contains(message, <<ToString(done.status)>>)
            /\ SubSeq(message, Len(message) - Len(body) + 1, Len(message)) = body
            /\ message[Len(message) - Len(body)] = " "

\* C7 witness: a 404 whose body was read
C7_Witness ==
    /\ done.status = 404
    /\ done.textRead
    /\ ~done.result.ok
    /\ Contains(done.result.message, done.text)

\* C8 as stated: a relationship request is sent with exactly one of object_id
\* and object_value set.
C8_ExactlyOneObject ==
    \A i \in 1..Len(last.result.sent) :
        last.result.sent[i].path = <<"/v1/graph/relationships">> =>
            (last.result.sent[i].body.object_id = Undefined)
                # (last.result.sent[i].body.object_value = Undefined)

WisdomCall(action) == last.op = "memory_wisdom" /\ last.params.action = action

\* C9: memory_wisdom forwards 'feedback' for an entry whether or not the
\* entry has an outcome, and 'outcome' whether or not it has feedback: with
\* its parameters given, each is sent as one request, and for a logged entry
\* that the service is reached for, each is answered as accepted.
C9_IndependentTransitions ==
    LET p == last.params
        accepted == last.net.kind = "served" /\ p.wisdom_id \in Logged(wisdom)
    IN  /\ (WisdomCall("feedback") /\ p.wisdom_id # Undefined /\ p.score # Undefined) =>
              /\ last.result.sent =
                    <<[method |-> "POST",
                       path |-> <<"/v1/wisdom/", p.wisdom_id, "/feedback">>,
                       body |-> [score |-> p.score, notes |-> p.notes]]>>
              /\ accepted =>
                    /\ last.result.outcome = "returned"
                    /\ last.result.text =
                          <<"Added feedback for ", p.wisdom_id, ": ", p.score, "/5">>
        /\ (WisdomCall("outcome") /\ p.wisdom_id # Undefined /\ p.outcome # Undefined) =>
              /\ last.result.sent =
                    <<[method |-> "POST",
                       path |-> <<"/v1/wisdom/", p.wisdom_id, "/outcome">>,
                       body |-> [outcome |-> p.outcome, details |-> p.details]]>>
              /\ accepted =>
                    /\ last.result.outcome = "returned"
                    /\ last.result.text =
                          <<"Recorded outcome for ", p.wisdom_id, ": ", p.outcome>>

\* C9 witness: feedback was accepted for an entry that has no outcome yet
C9_Witness ==
    /\ WisdomCall("feedback")
    /\ last.params.wisdom_id = "w1"
    /\ last.result.text = <<"Added feedback for ", "w1", ": ", "4", "/5">>
    /\ wisdom["w1"].logged
    /\ wisdom["w1"].outcome = Null
    /\ wisdom["w1"].feedback_score = "4"

\* the runs of tokens between the separators
RECURSIVE SplitOn(_, _)
SplitOn(s, sep) ==
    IF \A i \in 1..Len(s) : s[i] # sep THEN <<s>>
    ELSE LET i == CHOOSE k \in 1..Len(s) :
                    s[k] = sep /\ \A j \in 1..(k - 1) : s[j] # sep
         IN  <<SubSeq(s, 1, i - 1)>> \o SplitOn(SubSeq(s, i + 1, Len(s)), sep)

\* the step is an 'outcome' call with its parameters, answered by the service
OutcomeServed ==
    /\ last'.op = "memory_wisdom"
    /\ last'.params.action = "outcome"
    /\ last'.params.wisdom_id # Undefined
    /\ last'.params.outcome # Undefined
    /\ last'.net.kind = "served"

C11_IndependentToggles ==
    /\ (last.op = "before_agent_start" /\ ~config.autoRecall) =>
          /\ last.result.sent = <<>>
          /\ last.result.outcome = "returned"
          /\ last.result.value = Undefined
          /\ last.result.text = <<>>
    /\ (last.op = "agent_end" /\ ~config.autoCapture) =>
          /\ last.result.sent = <<>>
          /\ last.result.outcome = "returned"

\* C11 witness: capture is off and recall is on; the agent_end hook got a
\* conversation long enough to capture and sent nothing
C11_Witness ==
    /\ ~config.autoCapture
    /\ config.autoRecall
    /\ last.op = "agent_end"
    /\ ~extractConversation(last.params).threw
    /\ Len(extractConversation(last.params).value.chars) >= MinCaptureLen
    /\ last.result.sent = <<>>

\* C12: memory_search, memory_store and memory_forget are registered under
\* every configuration, memory_graph exactly when enableGraph is true and
\* memory_wisdom exactly when enableWisdom is true; register takes each of
\* the two switches from the plugin config when the key is there and from
\* the defaults (enableGraph true, enableWisdom false) when it is not; only
\* registered tools are executed.
C12_RegisteredTools ==
    /\ {"memory_search", "memory_store", "memory_forget"} \subseteq RegisteredTools(config)
    /\ RegisteredTools(config) \subseteq Tools
    /\ "memory_graph" \in RegisteredTools(config) <=> config.enableGraph = TRUE
    /\ "memory_wisdom" \in RegisteredTools(config) <=> config.enableWisdom = TRUE
    /\ last.op = "register" =>
          /\ config.enableGraph =
                IF "enableGraph" \in DOMAIN last.params
                THEN last.params.enableGraph ELSE TRUE
          /\ config.enableWisdom =
                IF "enableWisdom" \in DOMAIN last.params
                THEN last.params.enableWisdom ELSE FALSE
    /\ last.op \in Tools => last.op \in RegisteredTools(config)

\* C12 witness: register ran on a plugin config naming neither switch
C12_Witness ==
    /\ last.op = "register"
    /\ "enableGraph" \notin DOMAIN last.params
    /\ "enableWisdom" \notin DOMAIN last.params
    /\ RegisteredTools(config) =
          {"memory_search", "memory_store", "memory_forget", "memory_graph"}

\* the relationships of g that are valid now under the subject and predicate
ValidUnder(g, subject, pred) ==
    SelectSeq(g, LAMBDA r : /\ r.subject_id = subject
                            /\ r.predicate = pred
                            /\ r.valid_to = Null)

\* the step is an add_relationship call with an object_value only, answered
\* by the service
ValueRelationshipServed ==
    /\ last'.op = "memory_graph"
    /\ last'.params.action = "add_relationship"
    /\ last'.params.subject_id # Undefined
    /\ last'.params.predicate # Undefined
    /\ last'.params.object_id = Undefined
    /\ last'.params.object_value # Undefined
    /\ last'.net = Served

\* C13: an add_relationship call with an object_value that differs from the
\* valid relationship of the subject and predicate closes that relationship
\* (its valid_to is set, nothing else of it changes) and opens one with the
\* new value, whose id the tool returns; no two valid relationships have the
\* same subject, predicate and object; and the profile the tool prints lists
\* under a predicate exactly the relationships valid now, for the scenario's
\* predicate at most one.
C13_SupersedeCloses ==
    [][/\ \A i, j \in ValidNow(graph') :
             (/\ graph'[i].subject_id = graph'[j].subject_id
              /\ graph'[i].predicate = graph'[j].predicate
              /\ graph'[i].object_id = graph'[j].object_id
              /\ graph'[i].object_value = graph'[j].object_value) => i = j
       /\ \A i \in ValidNow(graph) :
             (/\ ValueRelationshipServed
              /\ graph[i].subject_id = last'.params.subject_id
              /\ graph[i].predicate = last'.params.predicate
              /\ graph[i].object_value # last'.params.object_value) =>
                /\ Len(graph') = Len(graph) + 1
                /\ graph'[i] = [graph[i] EXCEPT !.valid_to = "now"]
                /\ graph'[Len(graph')].valid_to = Null
                /\ graph'[Len(graph')].object_value = last'.params.object_value
                /\ graph'[Len(graph')].subject_id = last'.params.subject_id
                /\ graph'[Len(graph')].predicate = last'.params.predicate
                /\ last'.result.outcome = "returned"
                /\ last'.result.text =
                      <<"Created relationship: ", graph'[Len(graph')].id>>
       /\ (/\ last'.op = "memory_graph"
           /\ last'.params.action = "profile"
           /\ last'.result.outcome = "returned"
           /\ last'.result.sent # <<>>) =>
             LET lines == SplitOn(last'.result.text, "\n")
                 shown == SelectSeq(lines, LAMBDA l : Len(l) = 4 /\ l[2] = "works_on")
                 valid == ValidUnder(graph', last'.params.entity_id, "works_on")
             IN  /\ shown = [i \in 1..Len(valid) |-> RelationLine("works_on", valid[i])]
                 /\ Len(shown) <= 1
      ]_vars

\* C13 witness: ProjectX was superseded by ProjectY and the profile printed
\* lists ProjectY and not ProjectX
C13_Witness ==
    /\ last.op = "memory_graph"
    /\ last.params.action = "profile"
    /\ Len(graph) = 2
    /\ graph[1].object_value = "ProjectX"
    /\ graph[1].valid_to # Null
    /\ graph[2].object_value = "ProjectY"
    /\ graph[2].valid_to = Null
    /\ Contains(last.result.text, <<"- ", "works_on", ": ", "ProjectY">>)
    /\ ~Contains(last.result.text, <<"ProjectX">>)

\* C14: a memory_store call that follows a memory_store call with the same
\* content, both answered by the service, returns the same memory id and
\* leaves the stored memories as they were; the stored memories never hold
\* the same content twice.
C14_StoreIdempotent ==
    [][/\ (/\ last.op = "memory_store"
           /\ last.result.outcome = "returned"
           /\ last'.op = "memory_store"
           /\ last'.net = Served
           /\ last'.params.content = last.params.content) =>
             /\ last'.result.outcome = "returned"
             /\ last'.result.text = last.result.text
             /\ memories' = memories
             /\ \E i \in 1..Len(memories) :
                   /\ memories[i].content = last'.params.content
                   /\ last'.result.text = <<"Stored memory: ", memories[i].id>>
       /\ \A i, j \in 1..Len(memories') :
             memories'[i].content = memories'[j].content => i = j
      ]_vars

\* C14 witness: the content stored with one confidence was stored again with
\* another; the id of the one record is returned
C14_Witness ==
    /\ last.op = "memory_store"
    /\ last.result.outcome = "returned"
    /\ Len(memories) = 1
    /\ memories[1].content = last.params.content
    /\ memories[1].confidence = "1"
    /\ last.params.confidence = "0.5"
    /\ last.result.text = <<"Stored memory: ", memories[1].id>>

\* the results a memory_search invocation listed in its text
SearchShown ==
    Cardinality({k \in DOMAIN last.result.text : last.result.text[k] = "\n   id: "})

\* the results a search command printed, one line each
CliShown ==
    Cardinality({k \in DOMAIN last.result.logs :
        /\ last.result.logs[k].level = "console.log"
        /\ last.result.logs[k].msg # <<"No memories found.">>})

\* C15: a search the service answered shows min(available, limit) results,
\* never more than the limit: the limit of a memory_search call is the one
\* given, 5 when none is given; the limit of the search command is the
\* number typed after -n, 5 when there is no -n.
C15_SearchWithinLimit ==
    /\ (last.op = "memory_search" /\ last.net.kind = "served") =>
           LET limit == IF last.params.limit = {} THEN 5
                        ELSE CHOOSE n \in last.params.limit : TRUE
           IN  /\ last.result.outcome = "returned"
               /\ SearchShown = Min(Len(last.pick), limit)
               /\ SearchShown <= limit
               /\ IF SearchShown = 0
                  THEN last.result.text = <<"No memories found.">>
                  ELSE /\ last.result.text[2] = ToString(SearchShown)
                       /\ \A i \in 1..SearchShown : Contains(last.result.text,
                              <<"\n   id: ", last.pick[i].id>>)
    /\ (last.op = "cli search" /\ last.net.kind = "served") =>
           LET limit == CASE last.params.limit = <<"5">> -> 5
                          [] last.params.limit = <<"1">> -> 1
                          [] last.params.limit = <<"1", "x">> -> 1
           IN  /\ CliShown = Min(Len(last.pick), limit)
               /\ CliShown <= limit
               /\ \A i \in 1..CliShown : last.result.logs[i].msg[1] = last.pick[i].id

\* C15 witness: a memory_search without a limit, six memories available,
\* five listed
C15_Witness ==
    /\ last.op = "memory_search"
    /\ last.net.kind = "served"
    /\ last.params.limit = {}
    /\ Len(last.pick) = 6
    /\ SearchShown = 5
    /\ last.result.text[2] = "5"

\* call c settles in this step
Settles(c) == Pending(calls[c]) /\ calls'[c].phase = "idle"

\* C16: the calls in flight are independent.  A step in which one call
\* settles, by a timeout abort, a failure or a response, leaves every other
\* call as it was, pending with its own timer and its own age; a call is
\* aborted only by its own timer, when it is itself REQUEST_TIMEOUT_MS old;
\* a timer is cleared only by its own call, as the call leaves the try; and
\* a call that has settled has no timer left.
C16_IndependentCalls ==
    [][\A c \in DOMAIN calls :
          /\ Settles(c) =>
                /\ \A d \in DOMAIN calls \ {c} : calls'[d] = calls[d]
                /\ ~calls'[c].timer
                /\ done'.req = calls[c].req
                /\ done'.result.message = AbortMessage
                       => calls[c].timer /\ calls[c].elapsed >= REQUEST_TIMEOUT_MS
          /\ (calls[c].phase = "idle" /\ calls'[c].phase = "idle")
                => ~calls[c].timer /\ ~calls'[c].timer
          /\ (Pending(calls[c]) /\ calls[c].timer /\ ~calls'[c].timer)
                => calls'[c].phase \in {"idle", "reading json"}]_vars

\* C16 witness: a call was aborted by its timeout while a younger call is in
\* flight, its timer armed and not due
C16_Witness ==
    /\ done.result.message = AbortMessage
    /\ ~done.result.ok
    /\ calls[1].phase = "idle"
    /\ calls[2].phase = "fetching"
    /\ calls[2].timer
    /\ calls[2].elapsed < REQUEST_TIMEOUT_MS

\* the messages of the event with role 'user'
UserMessages(event) ==
    {i \in 1..Len(event.messages.items) :
        /\ event.messages.items[i].kind = "object"
        /\ event.messages.items[i].role = "user"}

\* the text of the user message of the event, <<>> when there is none
UserText(event) ==
    IF event.userMessage.type = "string" THEN event.userMessage.chars
    ELSE IF UserMessages(event) = {} THEN <<>>
    ELSE LET i == CHOOSE i \in UserMessages(event) :
                      \A j \in UserMessages(event) : j <= i
         IN  event.messages.items[i].content.chars

\* C17 as stated: before_agent_start throws for no event; with autoRecall
\* on, it asks for the context of the user message, the string
\* event.userMessage or else the content of the last message with role
\* 'user', and without a user message it returns nothing and sends nothing.
C17_HookNeverThrows ==
    (last.op = "before_agent_start" /\ config.autoRecall) =>
        /\ last.result.outcome = "returned"
        /\ IF UserText(last.params) = <<>>
           THEN last.result.sent = <<>> /\ last.result.value = Undefined
           ELSE /\ Len(last.result.sent) = 1
                /\ last.result.sent[1].body.query = UserText(last.params)

\* the conversation of the event: its messages with role 'user' or
\* 'assistant', in their order, each as "role: content"
ConversationText(event) ==
    LET spoken == SelectSeq(event.messages.items,
                            LAMBDA m : m.kind = "object" /\ m.role \in {"user", "assistant"})
    IN  join([i \in 1..Len(spoken) |->
                 RoleText(spoken[i].role) \o <<":", " ">> \o spoken[i].content.chars],
             <<"\n", "\n">>)

\* C18 as stated: agent_end sends an extract request, with the conversation
\* as its text, exactly when autoCapture is on and the conversation is at
\* least 50 characters long; otherwise it sends nothing.
C18_CaptureIffLongEnough ==
    last.op = "agent_end" =>
        IF config.autoCapture /\ Len(ConversationText(last.params)) >= 50
        THEN /\ Len(last.result.sent) = 1
             /\ last.result.sent[1] = extract(ConversationText(last.params), Undefined)
        ELSE last.result.sent = <<>>

====
